---- MODULE Spec2Model ----
(***************************************************************************)
(* Model of CompactVideoDownloader (src/hex.py): the presentation thread   *)
(* (button handlers and the process_queue timer), the download worker      *)
(* threads, the info-fetch threads, the cancellation flag and the relay    *)
(* queue between them.                                                     *)
(*                                                                         *)
(* Text is modelled as a sequence of one-character strings, so that        *)
(* substring tests, lower-casing, stripping and slicing are computed.      *)
(***************************************************************************)
EXTENDS Integers, Sequences, FiniteSets, TLC

(***************************************************************************)
(* Bounds of the model.                                                    *)
(***************************************************************************)
\* download sessions started in one run of the program
MaxSessions == 2
\* progress_hook invocations the library makes in one extract_info call
MaxHooks == 2
\* info fetches started in one run of the program
MaxInfo == 1

(***************************************************************************)
(* Text.                                                                   *)
(***************************************************************************)
Take(s, k) == SubSeq(s, 1, IF Len(s) < k THEN Len(s) ELSE k)

\* needle in hay
Contains(hay, needle) ==
    \E i \in 0..(Len(hay) - Len(needle)) :
        \A j \in 1..Len(needle) : hay[i + j] = needle[j]

StartsWith(s, prefix) ==
    /\ Len(prefix) <= Len(s)
    /\ \A j \in 1..Len(prefix) : s[j] = prefix[j]

LowerChar(c) ==
    CASE c = "A" -> "a" [] c = "B" -> "b" [] c = "C" -> "c" [] c = "D" -> "d"
      [] c = "E" -> "e" [] c = "F" -> "f" [] c = "G" -> "g" [] c = "H" -> "h"
      [] c = "I" -> "i" [] c = "J" -> "j" [] c = "K" -> "k" [] c = "L" -> "l"
      [] c = "M" -> "m" [] c = "N" -> "n" [] c = "O" -> "o" [] c = "P" -> "p"
      [] c = "Q" -> "q" [] c = "R" -> "r" [] c = "S" -> "s" [] c = "T" -> "t"
      [] c = "U" -> "u" [] c = "V" -> "v" [] c = "W" -> "w" [] c = "X" -> "x"
      [] c = "Y" -> "y" [] c = "Z" -> "z" [] OTHER -> c

\* str.lower()
Lower(s) == [i \in 1..Len(s) |-> LowerChar(s[i])]

\* str.strip(), for the whitespace the inputs contain
Strip(s) ==
    LET idx == {i \in 1..Len(s) : s[i] # " "}
        Min(S) == CHOOSE x \in S : \A y \in S : x <= y
        Max(S) == CHOOSE x \in S : \A y \in S : x >= y
    IN  IF idx = {} THEN <<>> ELSE SubSeq(s, Min(idx), Max(idx))

NoText == <<>>

CancelledByUser == <<"D","o","w","n","l","o","a","d"," ","c","a","n","c","e","l","l","e","d"," ","b","y"," ","u","s","e","r">>
NeedlePrivate == <<"P","r","i","v","a","t","e"," ","v","i","d","e","o">>
NeedleSignIn == <<"S","i","g","n"," ","i","n">>
NeedleNotAvailable == <<"n","o","t"," ","a","v","a","i","l","a","b","l","e">>
NeedleCancelled == <<"c","a","n","c","e","l","l","e","d">>
SchemeHttp == <<"h","t","t","p",":","/","/">>
SchemeHttps == <<"h","t","t","p","s",":","/","/">>

\* error texts the library may raise
MsgPrivate == <<"E","R","R","O","R",":"," ","P","r","i","v","a","t","e"," ","v","i","d","e","o">>
MsgNotAvail == <<"V","i","d","e","o"," ","N","o","t"," ","A","v","a","i","l","a","b","l","e"," ","h","e","r","e">>
MsgHttp == <<"H","T","T","P"," ","E","r","r","o","r"," ","4","0","4">>
MsgStreamCancelled == <<"S","t","r","e","a","m"," ","C","a","n","c","e","l","l","e","d"," ","b","y"," ","s","e","r","v","e","r">>
MsgSignIn == <<"S","i","g","n"," ","i","n"," ","t","o"," ","c","o","n","f","i","r","m"," ","y","o","u","r"," ","a","g","e">>
MsgPrivateUnavailable == <<"P","r","i","v","a","t","e"," ","v","i","d","e","o",":"," ","n","o","t"," ","a","v","a","i","l","a","b","l","e">>
\* a text longer than both slices taken of it
MsgLong == [i \in 1..205 |-> IF i = 1 THEN "E" ELSE "x"]

\* inputs of the URL field
UrlHttp == <<"h","t","t","p",":","/","/","a",".","b","/","v">>
UrlHttps == <<" ","h","t","t","p","s",":","/","/","x",".","c","o","m","/","1"," ">>
UrlFtp == <<"f","t","p",":","/","/","a",".","b","/","v">>
UrlUpper == <<"H","T","T","P",":","/","/","a",".","b","/","v">>
UrlBlank == <<" "," ">>
UrlEmpty == <<>>

Urls == {UrlHttp, UrlHttps, UrlFtp, UrlUpper, UrlBlank, UrlEmpty}

\* re.match(r'https?://', url)
MatchesHttp(url) == StartsWith(url, SchemeHttp) \/ StartsWith(url, SchemeHttps)

\* outcome of os.path.exists / os.makedirs on the output directory
DirStates == {"exists", "creatable", "uncreatable"}

(***************************************************************************)
(* The settings widgets and the options built from them.  A dict is a      *)
(* function from its keys to their values.                                 *)
(***************************************************************************)
\* the items of quality_combo and format_combo (lines 346, 352)
Qualities == {"best", "1080p", "720p", "480p", "360p", "worst"}
Formats == {"mp4", "mkv", "webm", "mp3"}

\* line 441
DefaultUserAgent == "Mozilla/5.0 (Windows NT 10.0; Win64; x64) AppleWebKit/537.36"

\* the files os.path.exists finds
ExistingFiles == {"cookies.txt"}
path_exists(path) == path \in ExistingFiles

\* the values the settings widgets may hold
Settings ==
    [output_path : {"~/Downloads", "/tmp/videos"},
     quality : Qualities,
     format : Formats,
     subtitle : BOOLEAN, thumbnail : BOOLEAN, metadata : BOOLEAN,
     proxy : {"", "http://127.0.0.1:8080"},
     cookies : {"", "cookies.txt", "missing.txt"},
     user_agent : {DefaultUserAgent, ""}]

EmptyDict == [k \in {} |-> TRUE]

\* one term of a format selector: which stream to pick (bv*, ba, b, wv*,
\* wa, w), and its filters [height<=N] (0: none) and [ext=...] ("": none)
Term(pick, maxheight, ext) == [pick |-> pick, maxheight |-> maxheight, ext |-> ext]

\* res = quality.replace('p', ''), read as the number of [height<={res}]
Res(quality) ==
    CASE quality = "1080p" -> 1080
      [] quality = "720p" -> 720
      [] quality = "480p" -> 480
      [] quality = "360p" -> 360

\* lines 693-700: the selector of a video download, a sequence of
\* alternatives ("/"), each a sequence of terms merged ("+")
video_format(quality) ==
    IF quality = "best"
    THEN <<<<Term("bv*", 0, "mp4"), Term("ba", 0, "m4a")>>,
           <<Term("b", 0, "mp4")>>,
           <<Term("bv*", 0, ""), Term("ba", 0, "")>>,
           <<Term("b", 0, "")>>>>
    ELSE IF quality = "worst"
    THEN <<<<Term("wv*", 0, ""), Term("wa", 0, "")>>,
           <<Term("w", 0, "")>>>>
    ELSE <<<<Term("bv*", Res(quality), "mp4"), Term("ba", 0, "m4a")>>,
           <<Term("b", 0, "mp4")>>,
           <<Term("bv*", 0, ""), Term("ba", 0, "")>>,
           <<Term("b", 0, "")>>>>

\* line 674: 'bestaudio/best'
audio_format == <<<<Term("ba", 0, "")>>, <<Term("b", 0, "")>>>>

\* audio_postprocessors with the thumbnail step for every download
audio_postprocessors_always_thumbnail(s) ==
    <<[key |-> "FFmpegExtractAudio", preferredcodec |-> "mp3", preferredquality |-> "192"]>>
    \o (IF s.metadata THEN <<[key |-> "FFmpegMetadata", add_metadata |-> TRUE]>> ELSE <<>>)
    \o <<[key |-> "EmbedThumbnail"]>>

\* lines 675-689
audio_postprocessors(s) ==
    <<[key |-> "FFmpegExtractAudio", preferredcodec |-> "mp3", preferredquality |-> "192"]>>
    \o (IF s.metadata THEN <<[key |-> "FFmpegMetadata", add_metadata |-> TRUE]>> ELSE <<>>)
    \o (IF s.thumbnail THEN <<[key |-> "EmbedThumbnail"]>> ELSE <<>>)

\* lines 661-662 (and 569-570)
proxy_entry(s) == IF s.proxy # "" THEN ("proxy" :> s.proxy) ELSE EmptyDict

\* cookiefile_entry without the os.path.exists test
cookiefile_entry_unchecked(s) ==
    IF s.cookies # "" THEN ("cookiefile" :> s.cookies) ELSE EmptyDict

\* lines 665-666 (and 573-574)
cookiefile_entry(s) ==
    IF s.cookies # "" /\ path_exists(s.cookies)
    THEN ("cookiefile" :> s.cookies) ELSE EmptyDict

\* lines 672-689: format == 'mp3'
audio_options(s) ==
    ("format" :> audio_format) @@ ("postprocessors" :> audio_postprocessors(s))

\* lines 691-716: a video format
video_options(s) ==
    ("format" :> video_format(s.quality))
    @@ ("merge_output_format" :> s.format)
    @@ (IF s.subtitle
        THEN ("writesubtitles" :> TRUE) @@ ("embedsubtitles" :> TRUE) ELSE EmptyDict)
    @@ (IF s.thumbnail
        THEN ("writethumbnail" :> TRUE) @@ ("embedthumbnail" :> TRUE) ELSE EmptyDict)
    @@ (IF s.metadata THEN ("addmetadata" :> TRUE) ELSE EmptyDict)

\* get_ydl_options (lines 648-718) with the widgets holding s
get_ydl_options(s) ==
    ("outtmpl" :> <<s.output_path, "%(title)s.%(ext)s">>)
    @@ ("progress_hooks" :> <<"progress_hook">>)
    @@ ("quiet" :> TRUE) @@ ("no_warnings" :> TRUE) @@ ("overwrites" :> TRUE)
    @@ ("socket_timeout" :> 30)
    @@ ("user_agent" :> s.user_agent)
    @@ proxy_entry(s)
    @@ cookiefile_entry(s)
    @@ (IF s.format = "mp3" THEN audio_options(s) ELSE video_options(s))

\* the options fetch_info builds (lines 560-574) with the widgets holding s
fetch_ydl_opts(s) ==
    ("quiet" :> TRUE) @@ ("no_warnings" :> TRUE) @@ ("extract_flat" :> FALSE)
    @@ ("socket_timeout" :> 30)
    @@ ("user_agent" :> s.user_agent)
    @@ proxy_entry(s)
    @@ cookiefile_entry(s)

\* no options built yet
NoOptions == EmptyDict

(***************************************************************************)
(* What the library makes of a format selector (line 730: extract_info     *)
(* with the 'format' option), for the streams a site offers.               *)
(***************************************************************************)
\* a stream: video-only, audio-only, or both in one file
Stream(video, audio, height, abr, ext) ==
    [video |-> video, audio |-> audio, height |-> height, abr |-> abr, ext |-> ext]

OfferedStreams ==
    {Stream(TRUE, FALSE, 360, 0, "mp4"),
     Stream(TRUE, FALSE, 2160, 0, "mp4"),
     Stream(TRUE, FALSE, 720, 0, "webm"),
     Stream(FALSE, TRUE, 0, 128, "m4a"),
     Stream(FALSE, TRUE, 0, 160, "webm"),
     Stream(TRUE, TRUE, 1440, 96, "mp4"),
     Stream(TRUE, TRUE, 240, 64, "webm")}

\* stream f is a candidate of term t
Matches(t, f) ==
    /\ CASE t.pick \in {"bv*", "wv*"} -> f.video
          [] t.pick \in {"ba", "wa"} -> f.audio /\ ~f.video
          [] t.pick \in {"b", "w"} -> f.video /\ f.audio
    /\ t.maxheight = 0 \/ (f.video /\ f.height <= t.maxheight)
    /\ t.ext = "" \/ f.ext = t.ext

Candidates(t, offered) == {f \in offered : Matches(t, f)}

\* the library's order of preference: resolution, then audio bitrate
Rank(f) == f.height * 1000 + f.abr

\* the best (b...) or worst (w...) candidate of term t
Pick(t, offered) ==
    IF t.pick \in {"bv*", "ba", "b"}
    THEN CHOOSE f \in Candidates(t, offered) :
             \A g \in Candidates(t, offered) : Rank(g) <= Rank(f)
    ELSE CHOOSE f \in Candidates(t, offered) :
             \A g \in Candidates(t, offered) : Rank(g) >= Rank(f)

\* the streams the library downloads: those of the first alternative all of
\* whose terms have a candidate; none if there is no such alternative
Select(selector, offered) ==
    LET usable == {i \in 1..Len(selector) :
                     \A k \in 1..Len(selector[i]) :
                         Candidates(selector[i][k], offered) # {}}
        first == CHOOSE i \in usable : \A k \in usable : i <= k
    IN  IF usable = {} THEN {}
        ELSE {Pick(selector[first][k], offered) : k \in 1..Len(selector[first])}

(***************************************************************************)
(* State.                                                                  *)
(***************************************************************************)
VARIABLES
    downloading,      \* self.downloading
    cancel_flag,      \* self.cancel_flag (threading.Event): TRUE when set
    message_queue,    \* self.message_queue (queue.Queue), head first
    download_btn,     \* download_btn.isEnabled()
    cancel_btn,       \* cancel_btn.isEnabled()
    progress_bar,     \* progress_bar.value()
    status_bar,       \* the message the status bar shows
    log_text,         \* the last line appended to the log pane
    dialog,           \* title of the modal message box that is open, or "none"
    ui,               \* the settings widgets
    config,           \* self.config
    config_file,      \* content of the config file, or NoFile
    gui_pc,           \* "idle", or "process_queue" inside its loop
    pc,               \* position of every background thread
    todo,             \* per thread: the queue_gui_update calls of the
                      \* statement block it is executing, still to make
    hooks,            \* per worker: progress_hook calls made by the library
    ydl_opts,         \* per thread: the options it has built for the library
    platform_label,   \* platform_label.text()
    \* History.  That of a session is dropped when its worker reaches the end.
    outstanding,      \* per thread: its actions enqueued and not yet applied,
                      \* in the order of its queue_gui_update calls
    terminal,         \* per session: the terminal event it has enqueued
    raised,           \* per session: how its extract_info call ended
    cancel_requested, \* per session: cancel_download set the flag
    accepted,         \* per session: the settings when start_download accepted it
    hook_after_cancel, \* per session: progress_hook ran after that
    detect_url,       \* the URL detect_platform was last called with
    fetch_raised      \* per info fetch: how its extract_info call ended, until
                      \* the fetch has made its last queue_gui_update call

vars == <<downloading, cancel_flag, message_queue, download_btn, cancel_btn,
          progress_bar, status_bar, log_text, dialog, ui, config, config_file,
          gui_pc, pc, todo, hooks, ydl_opts, platform_label, outstanding,
          terminal, raised, cancel_requested, accepted, hook_after_cancel,
          detect_url, fetch_raised>>

gui_vars == <<download_btn, cancel_btn, progress_bar, status_bar, log_text, dialog,
              platform_label>>
cfg_vars == <<ui, config, config_file>>
hist_vars == <<outstanding, terminal, raised, cancel_requested, accepted,
               hook_after_cancel, detect_url, fetch_raised>>

Sessions == 1..MaxSessions
Workers == {<<"download_worker", w>> : w \in Sessions}
Fetchers == {<<"fetch_info", j>> : j \in 1..MaxInfo}
Threads == Workers \cup Fetchers

Worker(w) == <<"download_worker", w>>
Fetcher(j) == <<"fetch_info", j>>

NoFile == [absent |-> TRUE]

\* load_config's defaults
DefaultConfig ==
    [output_path |-> "~/Downloads", quality |-> "best", format |-> "mp4",
     subtitle |-> FALSE, thumbnail |-> TRUE, metadata |-> TRUE]

\* initUI (lines 347-380, 441): the widgets show the loaded config; the
\* proxy and cookies fields start empty
initUI(cfg) ==
    [output_path |-> cfg.output_path, quality |-> cfg.quality, format |-> cfg.format,
     subtitle |-> cfg.subtitle, thumbnail |-> cfg.thumbnail, metadata |-> cfg.metadata,
     proxy |-> "", cookies |-> "", user_agent |-> DefaultUserAgent]

\* no request accepted
NotAccepted == EmptyDict

(***************************************************************************)
(* Deferred GUI actions: what queue_gui_update is given.  ev is the        *)
(* progress event the action is part of; op the widget call; tag, text     *)
(* and num its arguments.  src (added on enqueue) names the thread that    *)
(* enqueued the action.                                                    *)
(***************************************************************************)
Act(ev, op, tag, text, num) ==
    [ev |-> ev, op |-> op, tag |-> tag, text |-> text, num |-> num]

TerminalEvents == {"Finished", "Cancelled", "Failed"}
ProgressEvents == {"Downloading", "Processing"}

\* extract_info has not ended
NotEnded == [kind |-> "none", text |-> NoText]

\* the log line of a terminal event
IsTerminal(a) == a.ev \in TerminalEvents /\ a.op = "log"
IsProgress(a) == a.ev \in ProgressEvents

Titles == {<<"T">>}
\* what extract_info returns: a metadata structure, or nothing
InfoResults == {[some |-> TRUE, title |-> t] : t \in Titles}
                   \cup {[some |-> FALSE, title |-> NoText]}

\* a payload of the library's progress hooks; 0 stands for a byte count
\* that is missing or None
Payload(status, downloaded_bytes, total_bytes, total_bytes_estimate) ==
    [status |-> status, downloaded_bytes |-> downloaded_bytes,
     total_bytes |-> total_bytes, total_bytes_estimate |-> total_bytes_estimate]

\* the payloads the library hands to its progress hooks
HookPayloads ==
    {Payload("downloading", 1, 2, 0),
     Payload("downloading", 1, 0, 0),
     Payload("finished", 2, 2, 0)}

\* texts of the DownloadError / Exception a library call may end with
ErrorTexts == {MsgHttp, MsgPrivate, MsgNotAvail, MsgStreamCancelled, MsgLong}
\* the same, with texts that meet more than one test of fetch_info
FetchErrorTexts == ErrorTexts \cup {MsgSignIn, MsgPrivateUnavailable}
\* the ones used where the text or the payload makes no difference
SomeError == {MsgHttp}
SomePayload == {Payload("downloading", 1, 2, 0)}
\* payloads with the total known, estimated (above and below what has been
\* downloaded) or unknown
ProgressPayloads ==
    {Payload("downloading", 0, 3, 0),
     Payload("downloading", 2, 3, 0),
     Payload("downloading", 1, 0, 8),
     Payload("downloading", 3, 0, 2),
     Payload("downloading", 4, 0, 0),
     Payload("finished", 3, 3, 0)}
SomeUrls == {UrlHttp, UrlBlank}

(***************************************************************************)
(* Init: the state after __init__ (lines 18-56) and initUI.                *)
(***************************************************************************)
Init ==
    /\ downloading = FALSE
    /\ cancel_flag = FALSE
    /\ message_queue = <<>>
    /\ download_btn = TRUE
    /\ cancel_btn = FALSE
    /\ progress_bar = 0
    /\ status_bar = "Ready"
    /\ log_text = [tag |-> "", text |-> NoText]
    /\ dialog = "none"
    /\ ui = initUI(DefaultConfig)
    /\ config = DefaultConfig
    /\ config_file = NoFile
    /\ gui_pc = "idle"
    /\ pc = [t \in Threads |-> "unspawned"]
    /\ todo = [t \in Threads |-> <<>>]
    /\ hooks = [w \in Sessions |-> 0]
    /\ ydl_opts = [t \in Threads |-> NoOptions]
    /\ platform_label = "Platform: Auto"
    /\ outstanding = [t \in Threads |-> <<>>]
    /\ terminal = [w \in Sessions |-> "none"]
    /\ raised = [w \in Sessions |-> NotEnded]
    /\ cancel_requested = [w \in Sessions |-> FALSE]
    /\ accepted = [w \in Sessions |-> NotAccepted]
    /\ hook_after_cancel = [w \in Sessions |-> FALSE]
    /\ detect_url = NoText
    /\ fetch_raised = [j \in 1..MaxInfo |-> NotEnded]

(***************************************************************************)
(* The relay.                                                              *)
(***************************************************************************)
\* queue_gui_update on a last-in first-out queue (queue.LifoQueue)
queue_gui_update_lifo(q, t, a) ==
    <<[src |-> t, ev |-> a.ev, op |-> a.op,
       tag |-> a.tag, text |-> a.text, num |-> a.num]>> \o q

\* message_queue.put((func, args)) by thread t
queue_gui_update(q, t, a) ==
    Append(q, [src |-> t, ev |-> a.ev, op |-> a.op,
               tag |-> a.tag, text |-> a.text, num |-> a.num])

\* the action that thread a.src gave to queue_gui_update
Given(a) == Act(a.ev, a.op, a.tag, a.text, a.num)

\* message_queue.get_nowait(): the element taken, and what is left
get_nowait_item(q) == Head(q)
get_nowait_rest(q) == Tail(q)

\* func(*args): the widget call of a deferred action, on the GUI thread
ApplyAction(a) ==
    /\ progress_bar' = IF a.op = "progress_bar.setValue" THEN a.num ELSE progress_bar
    /\ status_bar' = IF a.op = "status_bar.showMessage" THEN a.tag ELSE status_bar
    /\ log_text' = IF a.op = "log" THEN [tag |-> a.tag, text |-> a.text] ELSE log_text
    /\ dialog' = IF a.op \in {"QMessageBox.information", "QMessageBox.critical"}
                    THEN a.tag ELSE dialog
    /\ download_btn' = IF a.op = "download_btn.setEnabled" THEN a.num = 1 ELSE download_btn
    /\ cancel_btn' = IF a.op = "cancel_btn.setEnabled" THEN a.num = 1 ELSE cancel_btn

\* one iteration of process_queue's loop: take the next action and apply it
process_queue ==
    /\ dialog = "none"
    /\ message_queue # <<>>
    /\ LET a == get_nowait_item(message_queue) IN
        /\ ApplyAction(a)
        /\ outstanding' = [outstanding EXCEPT ![a.src] = Tail(@)]
    /\ message_queue' = get_nowait_rest(message_queue)
    /\ gui_pc' = "process_queue"
    /\ UNCHANGED <<downloading, cancel_flag, pc, todo, hooks, ydl_opts, platform_label,
                   terminal, raised, cancel_requested, accepted, hook_after_cancel, detect_url, fetch_raised>>
    /\ UNCHANGED cfg_vars

\* queue.Empty ends the loop; the timer is set again
process_queue_empty ==
    /\ dialog = "none"
    /\ gui_pc = "process_queue"
    /\ message_queue = <<>>
    /\ gui_pc' = "idle"
    /\ UNCHANGED <<downloading, cancel_flag, message_queue, pc, todo, hooks, ydl_opts>>
    /\ UNCHANGED gui_vars /\ UNCHANGED cfg_vars /\ UNCHANGED hist_vars

\* the user closes the message box; the call that opened it returns
dismiss ==
    /\ dialog # "none"
    /\ dialog' = "none"
    /\ UNCHANGED <<downloading, cancel_flag, message_queue, gui_pc, pc, todo, hooks,
                   ydl_opts, download_btn, cancel_btn, progress_bar, status_bar, log_text, platform_label>>
    /\ UNCHANGED cfg_vars /\ UNCHANGED hist_vars

\* a background thread makes the next queue_gui_update call of its block
thread_put(t) ==
    /\ todo[t] # <<>>
    /\ message_queue' = queue_gui_update(message_queue, t, Head(todo[t]))
    /\ outstanding' = [outstanding EXCEPT ![t] = Append(@, Head(todo[t]))]
    /\ terminal' = IF IsTerminal(Head(todo[t]))
                      THEN [terminal EXCEPT ![t[2]] = Head(todo[t]).ev]
                      ELSE terminal
    /\ todo' = [todo EXCEPT ![t] = Tail(@)]
    /\ fetch_raised' = IF t \in Fetchers /\ Tail(todo[t]) = <<>>
                          THEN [fetch_raised EXCEPT ![t[2]] = NotEnded]
                          ELSE fetch_raised
    /\ UNCHANGED <<downloading, cancel_flag, gui_pc, pc, hooks, ydl_opts,
                   raised, cancel_requested, accepted, hook_after_cancel, detect_url>>
    /\ UNCHANGED gui_vars /\ UNCHANGED cfg_vars


(***************************************************************************)
(* The download worker (download_worker, lines 720-766) and the hook the   *)
(* library calls from inside extract_info (progress_hook, lines 615-646).  *)
(***************************************************************************)
\* line 622: d.get('total_bytes') or d.get('total_bytes_estimate', 0)
Total(d) == IF d.total_bytes # 0 THEN d.total_bytes ELSE d.total_bytes_estimate

\* int((downloaded / total) * 100) (lines 626, 643): cut towards zero
Percent(d) == (d.downloaded_bytes * 100) \div Total(d)

\* f"{percent:.0f}" (line 638): rounded, a half to the even neighbour
PercentShown(d) ==
    LET q == (d.downloaded_bytes * 100) \div Total(d)
        r == (d.downloaded_bytes * 100) % Total(d)
    IN  IF 2 * r > Total(d) \/ (2 * r = Total(d) /\ q % 2 = 1) THEN q + 1 ELSE q

\* lines 620-646: the actions progress_hook enqueues for payload d
progress_hook(d) ==
    IF d.status = "downloading"
    THEN IF Total(d) > 0
         THEN <<Act("Downloading", "status_bar.showMessage", "Downloading: %", NoText,
                    PercentShown(d)),
                Act("Downloading", "progress_bar.setValue", "", NoText, Percent(d))>>
         ELSE <<>>
    ELSE IF d.status = "finished"
         THEN <<Act("Processing", "status_bar.showMessage", "Processing...", NoText, 0)>>
         ELSE <<>>

\* lines 724-725
worker_begin ==
    <<Act("Start", "progress_bar.setValue", "", NoText, 0),
      Act("Start", "log", "Starting download...", NoText, 0)>>

\* worker_result reporting "Processing..." once more after the log line
worker_result_late_status(info) ==
    IF info.some
    THEN <<Act("Finished", "progress_bar.setValue", "", NoText, 100),
           Act("Finished", "log", "Download complete: ", info.title, 0),
           Act("Processing", "status_bar.showMessage", "Processing...", NoText, 0),
           Act("Finished", "QMessageBox.information", "Success", info.title, 0)>>
    ELSE <<>>

\* lines 732-742: extract_info returned info
worker_result(info) ==
    IF info.some
    THEN <<Act("Finished", "progress_bar.setValue", "", NoText, 100),
           Act("Finished", "log", "Download complete: ", info.title, 0),
           Act("Finished", "status_bar.showMessage", "Download complete", NoText, 0),
           Act("Finished", "QMessageBox.information", "Success", info.title, 0)>>
    ELSE <<>>

\* lines 744-754: except yt_dlp.utils.DownloadError
worker_DownloadError(error_msg) ==
    IF Contains(Lower(error_msg), NeedleCancelled)
    THEN <<Act("Cancelled", "log", "Download cancelled", NoText, 0),
           Act("Cancelled", "status_bar.showMessage", "Cancelled", NoText, 0)>>
    ELSE <<Act("Failed", "log", "Download failed: ", Take(error_msg, 100), 0),
           Act("Failed", "QMessageBox.critical", "Error: Download failed",
               Take(error_msg, 200), 0)>>

\* lines 756-761: except Exception
worker_Exception(msg) ==
    <<Act("Failed", "log", "Error: ", Take(msg, 100), 0),
      Act("Failed", "QMessageBox.critical", "Error: An error occurred", Take(msg, 200), 0)>>

\* worker_controls without line 766
worker_controls_no_cancel ==
    <<Act("Controls", "download_btn.setEnabled", "", NoText, 1)>>

\* lines 765-766
worker_controls ==
    <<Act("Controls", "download_btn.setEnabled", "", NoText, 1),
      Act("Controls", "cancel_btn.setEnabled", "", NoText, 0)>>

\* line 723: self.cancel_flag.clear(), then the block of lines 724-725
worker_clear(w) ==
    /\ pc[Worker(w)] = "clear"
    /\ cancel_flag' = FALSE
    /\ todo' = [todo EXCEPT ![Worker(w)] = worker_begin]
    /\ pc' = [pc EXCEPT ![Worker(w)] = "get_ydl_options"]
    /\ UNCHANGED <<downloading, message_queue, gui_pc, hooks, ydl_opts>>
    /\ UNCHANGED gui_vars /\ UNCHANGED cfg_vars /\ UNCHANGED hist_vars

\* line 727: get_ydl_options builds the options from the settings widgets
worker_get_ydl_options(w) ==
    /\ pc[Worker(w)] = "get_ydl_options"
    /\ todo[Worker(w)] = <<>>
    /\ ydl_opts' = [ydl_opts EXCEPT ![Worker(w)] = get_ydl_options(ui)]
    /\ pc' = [pc EXCEPT ![Worker(w)] = "extract_info"]
    /\ UNCHANGED <<downloading, cancel_flag, message_queue, gui_pc, todo, hooks>>
    /\ UNCHANGED gui_vars /\ UNCHANGED cfg_vars /\ UNCHANGED hist_vars

\* extract_info ends in worker w (kind, text: how), which goes on with the
\* actions acts
ExtractInfoEnds(w, kind, text, acts) ==
    /\ raised' = [raised EXCEPT ![w] = [kind |-> kind, text |-> text]]
    /\ todo' = [todo EXCEPT ![Worker(w)] = acts]
    /\ pc' = [pc EXCEPT ![Worker(w)] = "finally"]
    /\ hooks' = [hooks EXCEPT ![w] = 0]

\* library_hook with the test of line 617 made after the status handling
\* of lines 620-646
library_hook_check_last(w, d) ==
    /\ pc[Worker(w)] = "extract_info"
    /\ todo[Worker(w)] = <<>>
    /\ hooks[w] < MaxHooks
    /\ hook_after_cancel' = [hook_after_cancel EXCEPT ![w] = @ \/ cancel_requested[w]]
    /\ IF cancel_flag
       THEN ExtractInfoEnds(w, "cancellation", CancelledByUser,
                            progress_hook(d) \o worker_DownloadError(CancelledByUser))
       ELSE /\ todo' = [todo EXCEPT ![Worker(w)] = progress_hook(d)]
            /\ UNCHANGED raised
            /\ hooks' = [hooks EXCEPT ![w] = @ + 1]
            /\ pc' = pc
    /\ UNCHANGED <<downloading, cancel_flag, message_queue, gui_pc, ydl_opts,
                   outstanding, terminal, cancel_requested, accepted, detect_url,
                   fetch_raised>>
    /\ UNCHANGED gui_vars /\ UNCHANGED cfg_vars

\* the library calls progress_hook(d) (line 730 -> 615); a set flag makes
\* the hook raise DownloadError("Download cancelled by user") (617-618),
\* which ends extract_info
library_hook(w, d) ==
    /\ pc[Worker(w)] = "extract_info"
    /\ todo[Worker(w)] = <<>>
    /\ hooks[w] < MaxHooks
    /\ hook_after_cancel' = [hook_after_cancel EXCEPT ![w] = @ \/ cancel_requested[w]]
    /\ IF cancel_flag
       THEN ExtractInfoEnds(w, "cancellation", CancelledByUser,
                            worker_DownloadError(CancelledByUser))
       ELSE /\ todo' = [todo EXCEPT ![Worker(w)] = progress_hook(d)]
            /\ UNCHANGED raised
            /\ hooks' = [hooks EXCEPT ![w] = @ + 1]
            /\ pc' = pc
    /\ UNCHANGED <<downloading, cancel_flag, message_queue, gui_pc, ydl_opts,
                   outstanding, terminal, cancel_requested, accepted, detect_url, fetch_raised>>
    /\ UNCHANGED gui_vars /\ UNCHANGED cfg_vars

\* extract_info returns
library_return(w, info) ==
    /\ pc[Worker(w)] = "extract_info"
    /\ todo[Worker(w)] = <<>>
    /\ ExtractInfoEnds(w, "returned", NoText, worker_result(info))
    /\ UNCHANGED <<downloading, cancel_flag, message_queue, gui_pc, ydl_opts>>
    /\ UNCHANGED <<outstanding, terminal, cancel_requested, accepted, hook_after_cancel, detect_url, fetch_raised>>
    /\ UNCHANGED gui_vars /\ UNCHANGED cfg_vars

\* extract_info raises DownloadError(msg) of its own
library_DownloadError(w, msg) ==
    /\ pc[Worker(w)] = "extract_info"
    /\ todo[Worker(w)] = <<>>
    /\ ExtractInfoEnds(w, "DownloadError", msg, worker_DownloadError(msg))
    /\ UNCHANGED <<downloading, cancel_flag, message_queue, gui_pc, ydl_opts>>
    /\ UNCHANGED <<outstanding, terminal, cancel_requested, accepted, hook_after_cancel, detect_url, fetch_raised>>
    /\ UNCHANGED gui_vars /\ UNCHANGED cfg_vars

\* extract_info raises another exception
library_Exception(w, msg) ==
    /\ pc[Worker(w)] = "extract_info"
    /\ todo[Worker(w)] = <<>>
    /\ ExtractInfoEnds(w, "Exception", msg, worker_Exception(msg))
    /\ UNCHANGED <<downloading, cancel_flag, message_queue, gui_pc, ydl_opts>>
    /\ UNCHANGED <<outstanding, terminal, cancel_requested, accepted, hook_after_cancel, detect_url, fetch_raised>>
    /\ UNCHANGED gui_vars /\ UNCHANGED cfg_vars

\* lines 763-766: finally.  The session is over: its history is dropped.
worker_finally(w) ==
    /\ pc[Worker(w)] = "finally"
    /\ todo[Worker(w)] = <<>>
    /\ downloading' = FALSE
    /\ todo' = [todo EXCEPT ![Worker(w)] = worker_controls]
    /\ pc' = [pc EXCEPT ![Worker(w)] = "done"]
    /\ terminal' = [terminal EXCEPT ![w] = "none"]
    /\ raised' = [raised EXCEPT ![w] = NotEnded]
    /\ cancel_requested' = [cancel_requested EXCEPT ![w] = FALSE]
    /\ accepted' = [accepted EXCEPT ![w] = NotAccepted]
    /\ hook_after_cancel' = [hook_after_cancel EXCEPT ![w] = FALSE]
    /\ UNCHANGED <<cancel_flag, message_queue, gui_pc, hooks, ydl_opts, outstanding, detect_url, fetch_raised>>
    /\ UNCHANGED gui_vars /\ UNCHANGED cfg_vars

\* thread t has been started and has not returned
Alive(t) == pc[t] \notin {"unspawned", "done"} \/ todo[t] # <<>>


(***************************************************************************)
(* The info fetch (get_video_info and its thread fetch_info, 549-613).     *)
(***************************************************************************)
\* fetch_result setting the progress bar as download_worker does
fetch_result_sets_progress(info) ==
    IF info.some
    THEN <<Act("Info", "progress_bar.setValue", "", NoText, 100),
           Act("Info", "log", "Info fetched successfully", NoText, 0),
           Act("Info", "QMessageBox.information", "Video Information", info.title, 0)>>
    ELSE <<Act("Info", "log", "Could not fetch video information", NoText, 0)>>

\* lines 579-599
fetch_result(info) ==
    IF info.some
    THEN <<Act("Info", "log", "Info fetched successfully", NoText, 0),
           Act("Info", "QMessageBox.information", "Video Information", info.title, 0)>>
    ELSE <<Act("Info", "log", "Could not fetch video information", NoText, 0)>>

\* fetch_DownloadError with the test of line 605 made before that of line 603
fetch_DownloadError_geo_first(error_msg) ==
    IF Contains(Lower(error_msg), NeedleNotAvailable)
    THEN <<Act("Info", "log", "Geo-restricted content (use proxy)", NoText, 0)>>
    ELSE IF Contains(error_msg, NeedlePrivate) \/ Contains(error_msg, NeedleSignIn)
         THEN <<Act("Info", "log", "Private/age-restricted video (use cookies)", NoText, 0)>>
         ELSE <<Act("Info", "log", "Error: ", Take(error_msg, 100), 0)>>

\* lines 601-608: except yt_dlp.utils.DownloadError
fetch_DownloadError(error_msg) ==
    IF Contains(error_msg, NeedlePrivate) \/ Contains(error_msg, NeedleSignIn)
    THEN <<Act("Info", "log", "Private/age-restricted video (use cookies)", NoText, 0)>>
    ELSE IF Contains(Lower(error_msg), NeedleNotAvailable)
         THEN <<Act("Info", "log", "Geo-restricted content (use proxy)", NoText, 0)>>
         ELSE <<Act("Info", "log", "Error: ", Take(error_msg, 100), 0)>>

\* lines 610-611: except Exception
fetch_Exception(msg) ==
    <<Act("Info", "log", "Error: ", Take(msg, 100), 0)>>

\* lines 560-574: fetch_info builds its options from the settings widgets
fetch_info_options(j) ==
    /\ pc[Fetcher(j)] = "fetch_info"
    /\ ydl_opts' = [ydl_opts EXCEPT ![Fetcher(j)] = fetch_ydl_opts(ui)]
    /\ pc' = [pc EXCEPT ![Fetcher(j)] = "extract_info"]
    /\ UNCHANGED <<downloading, cancel_flag, message_queue, gui_pc, todo, hooks>>
    /\ UNCHANGED gui_vars /\ UNCHANGED cfg_vars /\ UNCHANGED hist_vars

\* extract_info ends in fetch j (kind, text: how), which ends its try
\* statement with the actions acts
FetchEnds(j, kind, text, acts) ==
    /\ pc[Fetcher(j)] = "extract_info"
    /\ todo' = [todo EXCEPT ![Fetcher(j)] = acts]
    /\ pc' = [pc EXCEPT ![Fetcher(j)] = "done"]
    /\ fetch_raised' = [fetch_raised EXCEPT ![j] = [kind |-> kind, text |-> text]]
    /\ UNCHANGED <<downloading, cancel_flag, message_queue, gui_pc, hooks, ydl_opts>>
    /\ UNCHANGED gui_vars /\ UNCHANGED cfg_vars
    /\ UNCHANGED <<outstanding, terminal, raised, cancel_requested, accepted,
                   hook_after_cancel, detect_url>>

\* extract_info(url, download=False) returns
fetch_info_return(j, info) == FetchEnds(j, "returned", NoText, fetch_result(info))
\* ... raises DownloadError
fetch_info_DownloadError(j, msg) ==
    FetchEnds(j, "DownloadError", msg, fetch_DownloadError(msg))
\* ... raises another exception
fetch_info_Exception(j, msg) == FetchEnds(j, "Exception", msg, fetch_Exception(msg))

\* the Get Info button (line 399)
get_video_info(url) ==
    /\ gui_pc = "idle"
    /\ dialog = "none"
    /\ \E j \in 1..MaxInfo : pc[Fetcher(j)] = "unspawned"
    /\ LET u == Strip(url)
           j == CHOOSE k \in 1..MaxInfo :
                    /\ pc[Fetcher(k)] = "unspawned"
                    /\ \A i \in 1..(k - 1) : pc[Fetcher(i)] # "unspawned"
       IN  IF u = <<>>
           THEN /\ dialog' = "Missing URL"
                /\ UNCHANGED <<log_text, pc>>
           ELSE /\ log_text' = [tag |-> "Fetching info for: ", text |-> Take(u, 50)]
                /\ pc' = [pc EXCEPT ![Fetcher(j)] = "fetch_info"]
                /\ UNCHANGED dialog
    /\ UNCHANGED <<downloading, cancel_flag, message_queue, gui_pc, todo, hooks,
                   ydl_opts, download_btn, cancel_btn, progress_bar, status_bar, platform_label>>
    /\ UNCHANGED cfg_vars /\ UNCHANGED hist_vars

(***************************************************************************)
(* Platform detection (detect_platform 100-120, auto_detect_platform       *)
(* 494-504).                                                               *)
(***************************************************************************)
\* the keys of patterns, in the order of the dict (lines 103-112)
Platforms == <<"youtube", "tiktok", "instagram", "twitter", "facebook", "vimeo", "dailymotion", "twitch", "reddit", "bilibili">>

\* the patterns of each platform; every one is a literal text ("\\." is a dot)
patterns ==
    [p \in {Platforms[i] : i \in 1..Len(Platforms)} |->
        CASE p = "youtube" -> {<<"y","o","u","t","u","b","e",".","c","o","m","/","w","a","t","c","h">>, <<"y","o","u","t","u",".","b","e","/">>, <<"y","o","u","t","u","b","e",".","c","o","m","/","s","h","o","r","t","s","/">>}
          [] p = "tiktok" -> {<<"t","i","k","t","o","k",".","c","o","m","/">>, <<"v","m",".","t","i","k","t","o","k",".","c","o","m","/">>, <<"v","t",".","t","i","k","t","o","k",".","c","o","m","/">>}
          [] p = "instagram" -> {<<"i","n","s","t","a","g","r","a","m",".","c","o","m","/">>, <<"i","n","s","t","a","g","r",".","a","m","/">>}
          [] p = "twitter" -> {<<"t","w","i","t","t","e","r",".","c","o","m","/">>, <<"x",".","c","o","m","/">>}
          [] p = "facebook" -> {<<"f","a","c","e","b","o","o","k",".","c","o","m","/">>, <<"f","b",".","w","a","t","c","h","/">>}
          [] p = "vimeo" -> {<<"v","i","m","e","o",".","c","o","m","/">>}
          [] p = "dailymotion" -> {<<"d","a","i","l","y","m","o","t","i","o","n",".","c","o","m","/">>}
          [] p = "twitch" -> {<<"t","w","i","t","c","h",".","t","v","/">>, <<"t","w","i","t","c","h",".","t","v","/","v","i","d","e","o","s","/">>}
          [] p = "reddit" -> {<<"r","e","d","d","i","t",".","c","o","m","/">>, <<"r","e","d","d",".","i","t","/">>}
          [] p = "bilibili" -> {<<"b","i","l","i","b","i","l","i",".","c","o","m","/">>, <<"b","2","3",".","t","v","/">>}]

\* re.search(pattern, url, re.IGNORECASE) for a literal pattern in lower case
re_search(pattern, url) == Contains(Lower(url), pattern)

\* detect_platform going through the platforms from the last to the first
detect_platform_last(url) ==
    LET hits == {i \in 1..Len(Platforms) :
                   \E pattern \in patterns[Platforms[i]] : re_search(pattern, url)}
    IN  IF hits = {} THEN "None"
        ELSE Platforms[CHOOSE i \in hits : \A k \in hits : i >= k]

\* lines 115-120: the first platform one of whose patterns is found in url
detect_platform(url) ==
    LET hits == {i \in 1..Len(Platforms) :
                   \E pattern \in patterns[Platforms[i]] : re_search(pattern, url)}
    IN  IF hits = {} THEN "None"
        ELSE Platforms[CHOOSE i \in hits : \A k \in hits : i <= k]

\* f'Platform: {platform.capitalize()}' (line 502)
PlatformText(platform) ==
    CASE platform = "youtube" -> "Platform: Youtube"
      [] platform = "tiktok" -> "Platform: Tiktok"
      [] platform = "instagram" -> "Platform: Instagram"
      [] platform = "twitter" -> "Platform: Twitter"
      [] platform = "facebook" -> "Platform: Facebook"
      [] platform = "vimeo" -> "Platform: Vimeo"
      [] platform = "dailymotion" -> "Platform: Dailymotion"
      [] platform = "twitch" -> "Platform: Twitch"
      [] platform = "reddit" -> "Platform: Reddit"
      [] platform = "bilibili" -> "Platform: Bilibili"

\* texts typed into the URL field
DetectYoutube == <<"h","t","t","p","s",":","/","/","w","w","w",".","y","o","u","t","u","b","e",".","c","o","m","/","w","a","t","c","h","?","v","=","a">>
DetectYoutubeUpper == <<"h","t","t","p","s",":","/","/","Y","O","U","T","U",".","B","E","/","a">>
DetectTiktok == <<"h","t","t","p","s",":","/","/","v","m",".","t","i","k","t","o","k",".","c","o","m","/","a">>
DetectInstagram == <<"h","t","t","p","s",":","/","/","w","w","w",".","i","n","s","t","a","g","r","a","m",".","c","o","m","/","p","/","a">>
DetectTwitter == <<"h","t","t","p","s",":","/","/","x",".","c","o","m","/","a","/","s","t","a","t","u","s","/","1">>
DetectFacebook == <<"h","t","t","p","s",":","/","/","f","b",".","w","a","t","c","h","/","a">>
DetectVimeo == <<"h","t","t","p","s",":","/","/","v","i","m","e","o",".","c","o","m","/","1">>
DetectDailymotion == <<"h","t","t","p","s",":","/","/","w","w","w",".","d","a","i","l","y","m","o","t","i","o","n",".","c","o","m","/","v","i","d","e","o","/","a">>
DetectTwitch == <<"h","t","t","p","s",":","/","/","w","w","w",".","t","w","i","t","c","h",".","t","v","/","v","i","d","e","o","s","/","1">>
DetectReddit == <<"h","t","t","p","s",":","/","/","r","e","d","d",".","i","t","/","a">>
DetectBilibili == <<"h","t","t","p","s",":","/","/","b","2","3",".","t","v","/","a">>
DetectNone == <<"h","t","t","p","s",":","/","/","e","x","a","m","p","l","e",".","c","o","m","/","v","i","d","e","o">>
DetectShared == <<"h","t","t","p","s",":","/","/","w","w","w",".","f","a","c","e","b","o","o","k",".","c","o","m","/","l",".","p","h","p","?","u","=","h","t","t","p","s",":","/","/","y","o","u","t","u",".","b","e","/","a">>
DetectBlank == <<" "," ">>

DetectUrls ==
    {DetectYoutube, DetectYoutubeUpper, DetectTiktok, DetectInstagram,
     DetectTwitter, DetectFacebook, DetectVimeo, DetectDailymotion,
     DetectTwitch, DetectReddit, DetectBilibili, DetectNone,
     DetectShared, DetectBlank}

\* textChanged of the URL field (line 318): auto_detect_platform
auto_detect_platform(url) ==
    /\ gui_pc = "idle"
    /\ dialog = "none"
    /\ detect_url' = url
    /\ platform_label' =
          IF Strip(url) = <<>> THEN "Platform: Auto"
          ELSE IF detect_platform(Strip(url)) # "None"
               THEN PlatformText(detect_platform(Strip(url)))
               ELSE "Platform: Unknown"
    /\ UNCHANGED fetch_raised /\ UNCHANGED <<downloading, cancel_flag, message_queue, gui_pc, pc, todo, hooks,
                   ydl_opts, download_btn, cancel_btn, progress_bar, status_bar,
                   log_text, dialog, outstanding, terminal, raised, cancel_requested,
                   accepted, hook_after_cancel>>
    /\ UNCHANGED cfg_vars

(***************************************************************************)
(* Settings and their persistence.                                         *)
(***************************************************************************)
\* JSON text of a str: the characters in quotes
json_string(v) == [json |-> "string", chars |-> v]

\* json_bool writing the bool as Python prints it
json_bool_as_repr(v) == [json |-> "literal", chars |-> IF v THEN "True" ELSE "False"]

\* JSON text of a bool: the literal true or false
json_bool(v) == [json |-> "literal", chars |-> IF v THEN "true" ELSE "false"]

\* the value of a JSON text
json_decode(j) ==
    IF j.json = "literal" THEN j.chars = "true" ELSE j.chars

\* json.dump(self.config, f) (line 96): the members, in the order of the
\* dict; the texts of the widgets are str, the check boxes' states bool
json_dump(cfg) ==
    <<[key |-> "output_path", value |-> json_string(cfg.output_path)],
      [key |-> "quality", value |-> json_string(cfg.quality)],
      [key |-> "format", value |-> json_string(cfg.format)],
      [key |-> "subtitle", value |-> json_bool(cfg.subtitle)],
      [key |-> "thumbnail", value |-> json_bool(cfg.thumbnail)],
      [key |-> "metadata", value |-> json_bool(cfg.metadata)]>>

\* json.load(f) (line 87): a dict of the members
json_load(text) ==
    [k \in {text[i].key : i \in 1..Len(text)} |->
        json_decode(text[CHOOSE i \in 1..Len(text) : text[i].key = k].value)]

\* a config file holding text
File(text) == [absent |-> FALSE, text |-> text]

\* save_config (lines 92-98) of config cfg; ok: whether the file could be written
save_config(cfg, ok) == IF ok THEN File(json_dump(cfg)) ELSE config_file

\* load_config (lines 73-90): the defaults, updated with the file's members
load_config(file) ==
    IF file = NoFile
    THEN DefaultConfig
    ELSE LET loaded_config == json_load(file.text)
         IN  [k \in DOMAIN DefaultConfig \cup DOMAIN loaded_config |->
                 IF k \in DOMAIN loaded_config THEN loaded_config[k]
                 ELSE DefaultConfig[k]]

\* save_current_config (lines 817-829); ok: whether save_config could write
save_current_config(ok) ==
    /\ config' = [config EXCEPT !.output_path = ui.output_path,
                                !.quality = ui.quality,
                                !.format = ui.format,
                                !.subtitle = ui.subtitle,
                                !.thumbnail = ui.thumbnail,
                                !.metadata = ui.metadata]
    /\ config_file' = save_config(config', ok)
    /\ log_text' = [tag |-> "Settings saved", text |-> NoText]
    /\ status_bar' = "Settings saved"
    /\ UNCHANGED ui

\* the Save Settings button (line 488)
save_clicked(ok) ==
    /\ gui_pc = "idle"
    /\ dialog = "none"
    /\ save_current_config(ok)
    /\ UNCHANGED <<downloading, cancel_flag, message_queue, gui_pc, pc, todo, hooks,
                   ydl_opts, download_btn, cancel_btn, progress_bar, dialog,
                   platform_label>>
    /\ UNCHANGED hist_vars

\* values the user gives the settings widgets while the program runs
EditSettings ==
    {[initUI(DefaultConfig) EXCEPT !.format = "mp3"],
     [initUI(DefaultConfig) EXCEPT !.quality = "720p", !.subtitle = TRUE],
     [initUI(DefaultConfig) EXCEPT !.output_path = "/tmp/videos", !.thumbnail = FALSE,
                                   !.proxy = "http://127.0.0.1:8080"]}

\* the user changes the settings widgets
user_edit(s) ==
    /\ gui_pc = "idle"
    /\ dialog = "none"
    /\ ui' = s
    /\ UNCHANGED <<downloading, cancel_flag, message_queue, gui_pc, pc, todo, hooks,
                   ydl_opts, config, config_file>>
    /\ UNCHANGED gui_vars /\ UNCHANGED hist_vars

\* the program is closed and run again: __init__ (lines 18-56), of which
\* load_config reads the config file, and initUI
restart ==
    /\ config' = load_config(config_file)
    /\ ui' = initUI(config')
    /\ downloading' = FALSE
    /\ cancel_flag' = FALSE
    /\ message_queue' = <<>>
    /\ download_btn' = TRUE
    /\ cancel_btn' = FALSE
    /\ progress_bar' = 0
    /\ status_bar' = "Ready"
    /\ log_text' = [tag |-> "", text |-> NoText]
    /\ dialog' = "none"
    /\ gui_pc' = "idle"
    /\ pc' = [t \in Threads |-> "unspawned"]
    /\ todo' = [t \in Threads |-> <<>>]
    /\ hooks' = [w \in Sessions |-> 0]
    /\ ydl_opts' = [t \in Threads |-> NoOptions]
    /\ platform_label' = "Platform: Auto"
    /\ outstanding' = [t \in Threads |-> <<>>]
    /\ terminal' = [w \in Sessions |-> "none"]
    /\ raised' = [w \in Sessions |-> NotEnded]
    /\ cancel_requested' = [w \in Sessions |-> FALSE]
    /\ accepted' = [w \in Sessions |-> NotAccepted]
    /\ hook_after_cancel' = [w \in Sessions |-> FALSE]
    /\ detect_url' = NoText
    /\ fetch_raised' = [j \in 1..MaxInfo |-> NotEnded]
    /\ UNCHANGED config_file

(***************************************************************************)
(* Starting and cancelling (start_download 768-807, cancel_download        *)
(* 809-815).  Both are slots of a button's clicked signal (lines 403,      *)
(* 407), which a disabled button does not emit.                            *)
(***************************************************************************)
Spawned == {w \in Sessions : pc[Worker(w)] # "unspawned"}

\* the session started last
Current == Cardinality(Spawned)

\* Valid without the return of line 791
Valid_no_directory_check(url, dir) ==
    /\ Strip(url) # <<>>
    /\ MatchesHttp(Strip(url))

\* lines 775-791: the request passes validation
Valid(url, dir) ==
    /\ Strip(url) # <<>>
    /\ MatchesHttp(Strip(url))
    /\ dir # "uncreatable"

\* lines 775-791: the message box of the validation that fails
Rejection(url, dir) ==
    IF Strip(url) = <<>> THEN "Missing URL"
    ELSE IF ~MatchesHttp(Strip(url)) THEN "Invalid URL"
    ELSE "Error: Cannot create directory"

start_download(url, dir, ok) ==
    /\ gui_pc = "idle"
    /\ dialog = "none"
    /\ download_btn
    /\ Current < MaxSessions
    /\ IF downloading
       THEN UNCHANGED vars
       ELSE IF ~Valid(url, dir)
       THEN /\ dialog' = Rejection(url, dir)
            /\ UNCHANGED <<downloading, cancel_flag, message_queue, gui_pc, pc, todo,
                           hooks, ydl_opts, download_btn, cancel_btn, progress_bar,
                           status_bar, log_text, platform_label>>
            /\ UNCHANGED cfg_vars /\ UNCHANGED hist_vars
       ELSE /\ downloading' = TRUE
            /\ download_btn' = FALSE
            /\ cancel_btn' = TRUE
            /\ save_current_config(ok)
            /\ pc' = [pc EXCEPT ![Worker(Current + 1)] = "clear"]
            /\ accepted' = [accepted EXCEPT ![Current + 1] = ui]
            /\ UNCHANGED <<cancel_flag, message_queue, gui_pc, todo, hooks, ydl_opts,
                           progress_bar, dialog, platform_label>>
            /\ UNCHANGED <<outstanding, terminal, raised, cancel_requested,
                           hook_after_cancel, detect_url, fetch_raised>>

\* cancel_download without the test of line 811
cancel_download_unguarded ==
    /\ gui_pc = "idle"
    /\ dialog = "none"
    /\ cancel_btn
    /\ cancel_flag' = TRUE
    /\ status_bar' = "Cancelling..."
    /\ log_text' = [tag |-> "Cancelling download...", text |-> NoText]
    /\ downloading' = FALSE
    /\ cancel_requested' = [cancel_requested EXCEPT ![Current] = TRUE]
    /\ UNCHANGED <<message_queue, gui_pc, pc, todo, hooks, ydl_opts,
                   download_btn, cancel_btn, progress_bar, dialog,
                   outstanding, terminal, raised, accepted, hook_after_cancel,
                   platform_label, detect_url, fetch_raised>>
    /\ UNCHANGED cfg_vars

\* lines 809-815, the slot of cancel_btn.clicked (line 407)
cancel_download ==
    /\ gui_pc = "idle"
    /\ dialog = "none"
    /\ cancel_btn
    /\ IF downloading
       THEN /\ cancel_flag' = TRUE
            /\ status_bar' = "Cancelling..."
            /\ log_text' = [tag |-> "Cancelling download...", text |-> NoText]
            /\ downloading' = FALSE
            /\ cancel_requested' = [cancel_requested EXCEPT ![Current] = TRUE]
            /\ UNCHANGED <<message_queue, gui_pc, pc, todo, hooks, ydl_opts,
                           download_btn, cancel_btn, progress_bar, dialog,
                           outstanding, terminal, raised, accepted, hook_after_cancel,
                           platform_label, detect_url, fetch_raised>>
            /\ UNCHANGED cfg_vars
       ELSE UNCHANGED vars

(***************************************************************************)
(* The program.                                                            *)
(***************************************************************************)
Relay ==
    \/ process_queue
    \/ process_queue_empty
    \/ dismiss

\* the steps of the download workers of sessions W, the library calling
\* its hooks with payloads of P and failing with a text of E
Download(W, P, E) ==
    \/ \E w \in W : thread_put(Worker(w))
    \/ \E w \in W : worker_clear(w)
    \/ \E w \in W : worker_get_ydl_options(w)
    \/ \E w \in W, d \in P : library_hook(w, d)
    \/ \E w \in W, info \in InfoResults : library_return(w, info)
    \/ \E w \in W, msg \in E : library_DownloadError(w, msg)
    \/ \E w \in W, msg \in E : library_Exception(w, msg)
    \/ \E w \in W : worker_finally(w)

\* the steps of the info fetch threads, the library failing with a text of E
Info(E) ==
    \/ \E j \in 1..MaxInfo : thread_put(Fetcher(j))
    \/ \E j \in 1..MaxInfo : fetch_info_options(j)
    \/ \E j \in 1..MaxInfo, info \in InfoResults : fetch_info_return(j, info)
    \/ \E j \in 1..MaxInfo, msg \in E : fetch_info_DownloadError(j, msg)
    \/ \E j \in 1..MaxInfo, msg \in E : fetch_info_Exception(j, msg)

\* Download sessions, one after the other.
Next ==
    \/ \E url \in Urls, dir \in DirStates : start_download(url, dir, TRUE)
    \/ cancel_download
    \/ Relay
    \/ Download(Sessions, HookPayloads, SomeError)

Spec == Init /\ [][Next]_vars

\* One download session, the library failing with any of the error texts.
NextErrors ==
    \/ Current = 0 /\ \E url \in Urls, dir \in DirStates : start_download(url, dir, TRUE)
    \/ cancel_download
    \/ Relay
    \/ Download({1}, HookPayloads, ErrorTexts)

SpecErrors == Init /\ [][NextErrors]_vars

\* no info fetch is under way
InfoIdle == \A j \in 1..MaxInfo : ~Alive(Fetcher(j)) /\ outstanding[Fetcher(j)] = <<>>

\* One download session and, beside it, info fetches one after the other.
NextInfo ==
    \/ Current = 0 /\ \E url \in Urls, dir \in DirStates : start_download(url, dir, TRUE)
    \/ cancel_download
    \/ Relay
    \/ Download({1}, SomePayload, SomeError)
    \/ InfoIdle /\ \E url \in SomeUrls : get_video_info(url)
    \/ Info(SomeError)

SpecInfo == Init /\ [][NextInfo]_vars

\* The options builders applied to every value of the settings widgets: the
\* user has set the widgets, then starts one download and one info fetch.
InitOptions ==
    \E s \in Settings :
        /\ ui = s
        /\ downloading = FALSE
        /\ cancel_flag = FALSE
        /\ message_queue = <<>>
        /\ download_btn = TRUE
        /\ cancel_btn = FALSE
        /\ progress_bar = 0
        /\ status_bar = "Ready"
        /\ log_text = [tag |-> "", text |-> NoText]
        /\ dialog = "none"
        /\ config = DefaultConfig
        /\ config_file = NoFile
        /\ gui_pc = "idle"
        /\ pc = [t \in Threads |-> "unspawned"]
        /\ todo = [t \in Threads |-> <<>>]
        /\ hooks = [w \in Sessions |-> 0]
        /\ ydl_opts = [t \in Threads |-> NoOptions]
        /\ platform_label = "Platform: Auto"
        /\ outstanding = [t \in Threads |-> <<>>]
        /\ terminal = [w \in Sessions |-> "none"]
        /\ raised = [w \in Sessions |-> NotEnded]
        /\ cancel_requested = [w \in Sessions |-> FALSE]
        /\ accepted = [w \in Sessions |-> NotAccepted]
        /\ hook_after_cancel = [w \in Sessions |-> FALSE]
        /\ detect_url = NoText
        /\ fetch_raised = [j \in 1..MaxInfo |-> NotEnded]

NextOptions ==
    \/ Current = 0 /\ start_download(UrlHttp, "exists", TRUE)
    \/ thread_put(Worker(1))
    \/ worker_clear(1)
    \/ worker_get_ydl_options(1)
    \/ InfoIdle /\ get_video_info(UrlHttp)
    \/ fetch_info_options(1)

SpecOptions == InitOptions /\ [][NextOptions]_vars

\* The user edits the URL field, before and after starting a download.
NextDetect ==
    \/ \E url \in DetectUrls : auto_detect_platform(url)
    \/ Current = 0 /\ \E url \in SomeUrls, dir \in DirStates : start_download(url, dir, TRUE)
    \/ cancel_download
    \/ Relay
    \/ worker_clear(1)
    \/ thread_put(Worker(1))
    \/ worker_get_ydl_options(1)

SpecDetect == Init /\ [][NextDetect]_vars

\* The settings are edited and saved, and the program is run again.
NextConfig ==
    \/ \E s \in EditSettings : user_edit(s)
    \/ \E ok \in BOOLEAN : save_clicked(ok)
    \/ restart

SpecConfig == InitOptions /\ [][NextConfig]_vars

\* One download session, the library reporting progress with any payload.
NextProgress ==
    \/ Current = 0 /\ \E url \in SomeUrls, dir \in DirStates : start_download(url, dir, TRUE)
    \/ cancel_download
    \/ Relay
    \/ Download({1}, ProgressPayloads, SomeError)

SpecProgress == Init /\ [][NextProgress]_vars

\* One download session, the user changing the settings widgets meanwhile.
NextEdit ==
    \/ \E s \in EditSettings : user_edit(s)
    \/ Current = 0 /\ \E url \in SomeUrls, dir \in DirStates : start_download(url, dir, TRUE)
    \/ cancel_download
    \/ Relay
    \/ Download({1}, SomePayload, SomeError)

SpecEdit == Init /\ [][NextEdit]_vars

\* One download session with the relay scheduled fairly: the timer of
\* lines 56 and 67 fires while the GUI thread is free, and the worker thread
\* goes on making its queue_gui_update calls.  Nothing is assumed about the
\* user: a message box may stay open.
NextRelay ==
    \/ Current = 0 /\ \E url \in SomeUrls, dir \in DirStates : start_download(url, dir, TRUE)
    \/ cancel_download
    \/ Relay
    \/ Download({1}, SomePayload, SomeError)

TimerFairness ==
    /\ WF_vars(process_queue)
    /\ WF_vars(process_queue_empty)

ThreadFairness ==
    WF_vars(\E w \in Sessions : thread_put(Worker(w)) \/ worker_clear(w)
                                 \/ worker_get_ydl_options(w) \/ worker_finally(w))

SpecRelay == Init /\ [][NextRelay]_vars /\ TimerFairness /\ ThreadFairness

\* Info fetches one after the other, the library failing with any of the
\* error texts.
NextFetch ==
    \/ InfoIdle /\ \E url \in Urls : get_video_info(url)
    \/ Info(FetchErrorTexts)
    \/ Relay

SpecFetch == Init /\ [][NextFetch]_vars


(***************************************************************************)
(* Claims.                                                                 *)
(***************************************************************************)
\* the actions of thread t in the queue, as given to queue_gui_update
Queued(t) ==
    LET q == SelectSeq(message_queue, LAMBDA a : a.src = t)
    IN  [i \in 1..Len(q) |-> Given(q[i])]

Last(s) == s[Len(s)]

\* C1: when cancel_download sets the flag during session w and the worker's
\* progress_hook is invoked after that, the terminal event of session w is
\* Cancelled (never Finished or Failed).
C1_CancelledBeforeHook ==
    \A w \in Sessions :
        hook_after_cancel[w] /\ terminal[w] # "none" => terminal[w] = "Cancelled"

\* C2: at most one download worker is alive at any time: start_download
\* spawns no worker while one spawned earlier has not returned.
C2_OneWorker ==
    Cardinality({w \in Sessions : Alive(Worker(w))}) <= 1

\* C3: the cancellation flag is clear when start_download has spawned the
\* worker, and once cancel_download has set it in a session it stays set
\* until that session's terminal event is enqueued.
C3_FlagPerSession ==
    [][/\ Spawned' # Spawned => ~cancel_flag'
       /\ \A w \in Sessions :
            cancel_requested[w] /\ cancel_flag /\ terminal[w] = "none"
                /\ terminal'[w] = "none" /\ pc'[Worker(w)] # "done"
            => cancel_flag']_vars

\* C4: the actions one thread gives to queue_gui_update are applied by
\* process_queue in the order of the calls: the queue holds each thread's
\* outstanding actions in that order, and the action process_queue takes
\* is the oldest outstanding action of its thread.
C4_RelayOrder ==
    /\ [](\A t \in Threads : Queued(t) = outstanding[t])
    /\ [][Len(message_queue') < Len(message_queue) =>
            LET a == get_nowait_item(message_queue)
            IN  /\ outstanding[a.src] # <<>>
                /\ Given(a) = Head(outstanding[a.src])
                /\ outstanding'[a.src] = Tail(outstanding[a.src])]_vars

\* a drain is under way, an earlier tick has applied a progress action, and
\* two more actions of one worker wait in the queue
C4_Witness ==
    /\ gui_pc = "process_queue"
    /\ progress_bar = 50
    /\ \E w \in Sessions : Len(Queued(Worker(w))) >= 2

\* no progress action follows a terminal log line in s
NoProgressAfterTerminal(s) ==
    \A i, j \in 1..Len(s) : i < j /\ IsTerminal(s[i]) => ~IsProgress(s[j])

\* C5: once session w has enqueued its terminal event, no progress event of
\* it is enqueued, waits to be enqueued, or is applied after it.
C5_NoProgressAfterTerminal ==
    /\ [](\A w \in Sessions :
            /\ NoProgressAfterTerminal(outstanding[Worker(w)])
            /\ NoProgressAfterTerminal(Queued(Worker(w)))
            /\ terminal[w] # "none" \/ pc[Worker(w)] = "done"
                 => \A i \in 1..Len(todo[Worker(w)]) : ~IsProgress(todo[Worker(w)][i]))
    /\ [][\A w \in Sessions :
            /\ terminal[w] # "none" \/ pc[Worker(w)] = "done"
            /\ Len(outstanding'[Worker(w)]) > Len(outstanding[Worker(w)])
            => ~IsProgress(Last(outstanding'[Worker(w)]))]_vars

\* a session has enqueued its terminal event while a progress event of it
\* is still waiting to be applied
C5_Witness ==
    \E w \in Sessions :
        /\ terminal[w] \in TerminalEvents
        /\ \E i \in 1..Len(outstanding[Worker(w)]) : IsProgress(outstanding[Worker(w)][i])

EnableDownload == Act("Controls", "download_btn.setEnabled", "", NoText, 1)
DisableCancel == Act("Controls", "cancel_btn.setEnabled", "", NoText, 0)

\* C6: however extract_info ends, the worker goes through its finally
\* block: it sets downloading to False and enqueues, after everything else
\* it enqueues, download_btn.setEnabled(True) and cancel_btn.setEnabled(False);
\* it returns only after enqueueing them.
C6_AlwaysBackToIdle ==
    /\ [](\A w \in Sessions :
            \A i, j \in 1..Len(outstanding[Worker(w)]) :
                i < j /\ outstanding[Worker(w)][i].ev = "Controls"
                => outstanding[Worker(w)][j].ev = "Controls")
    /\ [][\A w \in Sessions :
            /\ pc[Worker(w)] = "extract_info" /\ pc'[Worker(w)] # "extract_info"
                 => pc'[Worker(w)] = "finally"
            /\ pc[Worker(w)] = "finally" /\ pc'[Worker(w)] # "finally"
                 => /\ pc'[Worker(w)] = "done"
                    /\ ~downloading'
                    /\ todo[Worker(w)] = <<>>
                    /\ todo'[Worker(w)] = <<EnableDownload, DisableCancel>>
            /\ Alive(Worker(w)) /\ ~Alive(Worker(w))'
                 => /\ Given(Last(message_queue')) = DisableCancel
                    /\ Last(message_queue').src = Worker(w)]_vars

\* a worker whose library call failed has returned: downloading is False
\* and the two control actions wait behind its terminal event
C6_Witness ==
    \E w \in Sessions :
        /\ pc[Worker(w)] = "done" /\ todo[Worker(w)] = <<>>
        /\ ~downloading
        /\ Len(outstanding[Worker(w)]) >= 3
        /\ \E i \in 1..Len(outstanding[Worker(w)]) :
              /\ IsTerminal(outstanding[Worker(w)][i])
              /\ outstanding[Worker(w)][i].ev = "Failed"
              /\ SubSeq(outstanding[Worker(w)], Len(outstanding[Worker(w)]) - 1,
                        Len(outstanding[Worker(w)])) = <<EnableDownload, DisableCancel>>

\* C7: when the library call of a session fails with a DownloadError that
\* is no cancellation, the session's terminal event is Failed and carries:
\* the use-cookies guidance if the error text contains "Private video"; the
\* use-proxy guidance if it contains "not available"; else the error text
\* cut to 100 characters.
C7_FailureGuidance ==
    \A w \in Sessions :
        raised[w].kind = "DownloadError" =>
            \A i \in 1..Len(outstanding[Worker(w)]) :
                LET a == outstanding[Worker(w)][i] IN
                IsTerminal(a) =>
                    /\ a.ev = "Failed"
                    /\ IF Contains(raised[w].text, NeedlePrivate)
                       THEN a.tag = "Private/age-restricted video (use cookies)"
                       ELSE IF Contains(raised[w].text, NeedleNotAvailable)
                            THEN a.tag = "Geo-restricted content (use proxy)"
                            ELSE a.text = Take(raised[w].text, 100)

\* the request fails validation, as the claim words it
Refused(url, dir) ==
    \/ Strip(url) = <<>>
    \/ ~(StartsWith(Strip(url), SchemeHttp) \/ StartsWith(Strip(url), SchemeHttps))
    \/ dir = "uncreatable"

\* C8: a start_download call whose request fails validation starts no
\* session: no worker is spawned, and downloading, the cancellation flag,
\* the buttons, the config, the config file and the relay queue are unchanged.
\* (start_download is a step of the idle presentation thread made through
\* the enabled Download button; no other step needs looking at.)
C8_RejectedStartsNothing ==
    [][gui_pc = "idle" /\ dialog = "none" /\ download_btn
         => \A url \in Urls, dir \in DirStates :
                Refused(url, dir) /\ start_download(url, dir, TRUE)
                => UNCHANGED <<downloading, cancel_flag, download_btn, cancel_btn,
                               config, config_file, message_queue, pc, todo>>]_vars

\* after an earlier session, a start has been refused for its directory
C8_Witness ==
    /\ dialog = "Error: Cannot create directory"
    /\ Current >= 1
    /\ ~downloading
    /\ config_file # NoFile

\* a step of a background thread
BackgroundStep ==
    \E t \in Threads :
        pc[t] # "unspawned" /\ (pc'[t] # pc[t] \/ todo'[t] # todo[t])

\* C9: background threads never write state owned by the presentation
\* loop (the downloading flag, the widgets, the config): they only write
\* the cancellation flag and the relay queue.
C9_BackgroundWritesOnlyRelay ==
    [][BackgroundStep =>
         UNCHANGED <<downloading, download_btn, cancel_btn, progress_bar,
                     status_bar, log_text, dialog, ui, config, config_file>>]_vars

\* a step made for an info fetch: the Get Info handler, a step of a
\* fetch_info thread, or process_queue applying an action of such a thread
InfoStep ==
    \/ \E url \in Urls : get_video_info(url)
    \/ \E j \in 1..MaxInfo :
          pc'[Fetcher(j)] # pc[Fetcher(j)] \/ todo'[Fetcher(j)] # todo[Fetcher(j)]
    \/ /\ Len(message_queue') < Len(message_queue)
       /\ get_nowait_item(message_queue).src \in Fetchers

\* C10: no step made for an info fetch changes the downloading flag, the
\* cancellation flag, the enabled state of the buttons or the progress value.
C10_InfoLeavesSession ==
    [][InfoStep =>
         UNCHANGED <<downloading, cancel_flag, download_btn, cancel_btn,
                     progress_bar>>]_vars

\* the result of an info fetch has been applied during a running session
C10_Witness ==
    /\ downloading
    /\ pc[Worker(1)] = "extract_info"
    /\ log_text.tag = "Info fetched successfully"
    /\ pc[Fetcher(1)] = "done"

\* the message box of a deferred action
IsDialog(a) == a.op \in {"QMessageBox.information", "QMessageBox.critical"}

\* C11: however the library call of a session ends, the worker goes on to
\* enqueue exactly one terminal log line, and exactly one message box unless
\* the outcome is a cancellation, for which it enqueues none.
C11_OneLogOneDialog ==
    [][\A w \in Sessions :
          pc[Worker(w)] = "extract_info" /\ pc'[Worker(w)] = "finally"
          => LET acts == todo'[Worker(w)] IN
             /\ Cardinality({i \in 1..Len(acts) : IsTerminal(acts[i])}) = 1
             /\ Cardinality({i \in 1..Len(acts) : IsDialog(acts[i])})
                  = IF \E i \in 1..Len(acts) : acts[i].ev = "Cancelled" THEN 0 ELSE 1]_vars

\* the qualities that name a resolution
Resolutions == {"1080p", "720p", "480p", "360p"}

\* C12: with a video format and a quality Np, whatever streams the site
\* offers, the video stream the library selects with the built selector has
\* height <= N (also when the selection falls back from mp4), and the first
\* alternative of the selector asks for mp4.
C12_HeightLimit ==
    \A w \in Sessions :
        /\ ydl_opts[Worker(w)] # NoOptions
        /\ ui.format # "mp3"
        /\ ui.quality \in Resolutions
        => /\ ydl_opts[Worker(w)]["format"][1][1].ext = "mp4"
           /\ \A offered \in SUBSET OfferedStreams :
                 \A f \in Select(ydl_opts[Worker(w)]["format"], offered) :
                     f.video => f.height <= Res(ui.quality)

\* a video format of format_combo
VideoFormats == {"mp4", "mkv", "webm"}

\* C13: with a video format f and any quality, the output merge format is
\* f, and the selection prefers container f: whenever the site offers a
\* file in container f holding video and audio, the video stream selected
\* is in container f.
C13_PrefersFormat ==
    \A w \in Sessions :
        /\ ydl_opts[Worker(w)] # NoOptions
        /\ ui.format \in VideoFormats
        => /\ ydl_opts[Worker(w)]["merge_output_format"] = ui.format
           /\ \A offered \in SUBSET OfferedStreams :
                 (\E g \in offered : g.video /\ g.audio /\ g.ext = ui.format)
                 => \A f \in Select(ydl_opts[Worker(w)]["format"], offered) :
                       f.video => f.ext = ui.format

\* the keys of the post-processors in options opts
PostProcessorKeys(opts) ==
    {opts["postprocessors"][i].key : i \in 1..Len(opts["postprocessors"])}

\* C14: with format mp3, whatever the quality and the flags, the options
\* have the mp3 / 192 audio extraction as first post-processor, no merge
\* format and no subtitle options, the metadata step iff Metadata is
\* checked and the thumbnail step iff Thumbnail is checked.
C14_AudioOptions ==
    \A w \in Sessions :
        LET opts == ydl_opts[Worker(w)] IN
        opts # NoOptions /\ ui.format = "mp3"
        => /\ "postprocessors" \in DOMAIN opts
           /\ opts["postprocessors"][1] =
                [key |-> "FFmpegExtractAudio", preferredcodec |-> "mp3",
                 preferredquality |-> "192"]
           /\ DOMAIN opts \cap {"merge_output_format", "writesubtitles", "embedsubtitles"} = {}
           /\ "FFmpegMetadata" \in PostProcessorKeys(opts) <=> ui.metadata
           /\ "EmbedThumbnail" \in PostProcessorKeys(opts) <=> ui.thumbnail

\* the worker has built the options of an mp3 download with Subtitles and
\* Metadata checked and Thumbnail not
C14_Witness ==
    /\ ydl_opts[Worker(1)] # NoOptions
    /\ ui.format = "mp3" /\ ui.quality = "720p"
    /\ ui.subtitle /\ ui.metadata /\ ~ui.thumbnail

\* the proxy / cookies rule for options opts
NetworkRule(opts) ==
    /\ opts["socket_timeout"] = 30
    /\ opts["user_agent"] = ui.user_agent
    /\ "proxy" \in DOMAIN opts <=> ui.proxy # ""
    /\ "proxy" \in DOMAIN opts => opts["proxy"] = ui.proxy
    /\ "cookiefile" \in DOMAIN opts <=> ui.cookies # "" /\ ui.cookies \in ExistingFiles
    /\ "cookiefile" \in DOMAIN opts => opts["cookiefile"] = ui.cookies

\* C15: the options of a download always hold the output path template,
\* the socket timeout and the user agent, a proxy entry iff the proxy field
\* is non-empty, and a cookies-file entry iff the cookies field is
\* non-empty and names an existing file; the options of an info fetch
\* follow the same proxy / cookies rule.
C15_NetworkOptions ==
    /\ \A w \in Sessions :
          ydl_opts[Worker(w)] # NoOptions
          => /\ {"outtmpl", "socket_timeout", "user_agent"} \subseteq DOMAIN ydl_opts[Worker(w)]
             /\ ydl_opts[Worker(w)]["outtmpl"] = <<ui.output_path, "%(title)s.%(ext)s">>
             /\ NetworkRule(ydl_opts[Worker(w)])
    /\ \A j \in 1..MaxInfo :
          ydl_opts[Fetcher(j)] # NoOptions
          => /\ {"socket_timeout", "user_agent"} \subseteq DOMAIN ydl_opts[Fetcher(j)]
             /\ NetworkRule(ydl_opts[Fetcher(j)])

\* a download and an info fetch have built their options with a proxy set
\* and a cookies path that names no file
C15_Witness ==
    /\ ydl_opts[Worker(1)] # NoOptions
    /\ ydl_opts[Fetcher(1)] # NoOptions
    /\ ui.proxy # ""
    /\ ui.cookies = "missing.txt"

\* url holds a match for a pattern of the i-th platform, case ignored
HasMatch(url, i) ==
    \E pattern \in patterns[Platforms[i]] : Contains(Lower(url), pattern)

\* C16 as stated: for a URL holding a match for a pattern of platform P the
\* platform detected is P, whichever P that is; for a URL holding no match
\* it is none.
C16_DetectsEveryMatch ==
    Strip(detect_url) # <<>>
    => /\ \A i \in 1..Len(Platforms) :
             HasMatch(Strip(detect_url), i) => platform_label = PlatformText(Platforms[i])
       /\ (\A i \in 1..Len(Platforms) : ~HasMatch(Strip(detect_url), i))
             => platform_label = "Platform: Unknown"

\* C16 amended: the platform detected is the first one, in the order of the
\* patterns table, for a pattern of which the URL holds a match; for a URL
\* holding no match it is none.  The result depends on the URL only.
C16_DetectsFirstMatch ==
    Strip(detect_url) # <<>>
    => /\ \A i \in 1..Len(Platforms) :
             HasMatch(Strip(detect_url), i)
             /\ (\A k \in 1..(i - 1) : ~HasMatch(Strip(detect_url), k))
             => platform_label = PlatformText(Platforms[i])
       /\ (\A i \in 1..Len(Platforms) : ~HasMatch(Strip(detect_url), i))
             => platform_label = "Platform: Unknown"

\* the platform of a URL holding matches for two platforms has been detected
C16_Witness ==
    /\ detect_url = DetectShared
    /\ platform_label = "Platform: Youtube"

\* the valid values of the config
ConfigValues ==
    [output_path : {"~/Downloads", "/tmp/videos"}, quality : Qualities, format : Formats,
     subtitle : BOOLEAN, thumbnail : BOOLEAN, metadata : BOOLEAN]

\* C17: when load_config runs on the file that save_config wrote for a
\* config cfg, the config it yields is cfg, for every valid cfg and whatever
\* the config was before.
C17_ConfigRoundTrip ==
    [][restart =>
         \A cfg \in ConfigValues :
             config_file = File(json_dump(cfg)) => config' = cfg]_vars

\* the program has been run again and has loaded a saved config that
\* differs from the defaults in a text and in a check box
C17_Witness ==
    /\ status_bar = "Ready"
    /\ config_file # NoFile
    /\ config.format = "mp3"
    /\ config.thumbnail = FALSE
    /\ ui = initUI(config)

\* C18: every Downloading action that progress_hook has the worker enqueue
\* (the status line and the progress bar value) carries a percent in 0..100.
C18_PercentInRange ==
    \A w \in Sessions :
        /\ \A i \in 1..Len(todo[Worker(w)]) :
              todo[Worker(w)][i].ev = "Downloading" => todo[Worker(w)][i].num \in 0..100
        /\ \A i \in 1..Len(outstanding[Worker(w)]) :
              outstanding[Worker(w)][i].ev = "Downloading"
              => outstanding[Worker(w)][i].num \in 0..100

\* C19: the options a session's worker has built are the ones derived from
\* the settings as they were when start_download accepted the request;
\* changes made to the widgets afterwards do not show in them.
C19_OptionsOfAcceptedRequest ==
    \A w \in Sessions :
        accepted[w] # NotAccepted /\ ydl_opts[Worker(w)] # NoOptions
        => ydl_opts[Worker(w)] = get_ydl_options(accepted[w])

\* session w has been started and has neither emitted its terminal event
\* nor reached the end of its worker
Running(w) ==
    /\ pc[Worker(w)] \in {"clear", "get_ydl_options", "extract_info", "finally"}
    /\ terminal[w] = "none"

\* C20: while a session is running and has not been cancelled, the cancel
\* button is enabled and the download button disabled: no control action
\* of an earlier session's worker is applied after the session started.
C20_ControlsWhileRunning ==
    \A w \in Sessions :
        Running(w) /\ ~cancel_requested[w] => cancel_btn /\ ~download_btn

\* C21: the downloading flag is TRUE whenever a download worker has been
\* spawned and has not yet run its cleanup (the finally block): a cancel
\* request alone does not make the program idle.
C21_DownloadingWhileWorker ==
    \A w \in Sessions :
        pc[Worker(w)] \in {"clear", "get_ydl_options", "extract_info", "finally"}
        => downloading

\* C22: the terminal event of a session is Cancelled only if
\* cancel_download set the cancellation flag during that session; a
\* DownloadError the library raises of its own while the flag is clear
\* gives Failed, whatever its text.
C22_CancelledOnlyOnRequest ==
    \A w \in Sessions :
        /\ terminal[w] = "Cancelled" => cancel_requested[w]
        /\ raised[w].kind = "DownloadError" /\ ~cancel_requested[w]
               /\ terminal[w] # "none"
           => terminal[w] = "Failed"

\* C23: the relay loses and repeats nothing and is live: the queue holds
\* exactly the actions given to queue_gui_update and not yet applied, each
\* step of process_queue applies one of them and removes it, and every
\* action enqueued is eventually applied.
C23_EveryActionApplied ==
    /\ [](\A t \in Threads : Queued(t) = outstanding[t])
    /\ [][Len(message_queue') < Len(message_queue) =>
            /\ message_queue' = get_nowait_rest(message_queue)
            /\ outstanding'[get_nowait_item(message_queue).src]
                   = Tail(outstanding[get_nowait_item(message_queue).src])]_vars
    /\ \A t \in Threads : (outstanding[t] # <<>>) ~> (outstanding[t] = <<>>)

\* C24: cancel_download called while downloading is FALSE (a second cancel
\* after the first included) changes nothing: from a state with
\* downloading FALSE no step sets the cancellation flag or reports
\* "Cancelling", and a cancel_download step leaves every variable as it is.
C24_CancelWhenIdleIsNoOp ==
    [][~downloading =>
        /\ cancel_download => UNCHANGED vars
        /\ cancel_flag' => cancel_flag
        /\ status_bar' = "Cancelling..." => status_bar = "Cancelling..."
        /\ log_text'.tag = "Cancelling download..."
               => log_text.tag = "Cancelling download..."]_vars

\* the cancel button can be clicked a second time: the first cancel of the
\* session has cleared downloading, the worker has cleared the flag since,
\* and the button is still enabled
C24_Witness ==
    /\ gui_pc = "idle" /\ dialog = "none" /\ cancel_btn
    /\ ~downloading /\ ~cancel_flag
    /\ status_bar # "Cancelling..."
    /\ \E w \in Sessions : cancel_requested[w] /\ Alive(Worker(w))

\* the one log line an info fetch owes for a failure of the given kind and text
FetchFailureLog(kind, text) ==
    IF kind = "DownloadError"
         /\ (Contains(text, NeedlePrivate) \/ Contains(text, NeedleSignIn))
    THEN [tag |-> "Private/age-restricted video (use cookies)", text |-> NoText]
    ELSE IF kind = "DownloadError" /\ Contains(Lower(text), NeedleNotAvailable)
    THEN [tag |-> "Geo-restricted content (use proxy)", text |-> NoText]
    ELSE [tag |-> "Error: ", text |-> Take(text, 100)]

\* C25: an info fetch whose library call fails goes on to enqueue exactly
\* one action, a log line, and nothing else: the use-cookies guidance for a
\* library error with "Private video" or "Sign in" in its text, else the
\* use-proxy guidance for one with "not available" in any letter case, else
\* the text cut to 100 characters; for another exception its text cut to
\* 100 characters.
C25_FetchFailureLog ==
    [][\A j \in 1..MaxInfo :
          fetch_raised'[j] # fetch_raised[j]
              /\ fetch_raised'[j].kind \in {"DownloadError", "Exception"}
          => /\ Len(todo'[Fetcher(j)]) = 1
             /\ todo'[Fetcher(j)][1].op = "log"
             /\ [tag |-> todo'[Fetcher(j)][1].tag, text |-> todo'[Fetcher(j)][1].text]
                    = FetchFailureLog(fetch_raised'[j].kind, fetch_raised'[j].text)
             /\ pc'[Fetcher(j)] = "done"]_vars

\* a fetch has failed with a library error whose text names a private video
\* and says "not available" as well, and is about to enqueue its log line
C25_Witness ==
    /\ fetch_raised[1] = [kind |-> "DownloadError", text |-> MsgPrivateUnavailable]
    /\ Len(todo[Fetcher(1)]) = 1
    /\ todo[Fetcher(1)][1].tag = "Private/age-restricted video (use cookies)"

\* the library calls the progress hook of session w in this step
HookStep(w) ==
    /\ pc[Worker(w)] = "extract_info"
    /\ hooks'[w] = hooks[w] + 1 \/ raised'[w].kind = "cancellation"

\* the terminal events among the actions s
TerminalOf(s) == {s[i].ev : i \in {k \in DOMAIN s : IsTerminal(s[k])}}

\* C26: a progress hook called while the cancellation flag is set, the
\* 'finished' tick included, ends the library call with the cancellation
\* error: the worker goes on to enqueue no progress action and the terminal
\* event Cancelled.  A library call that returns its info gives Finished
\* whether or not the flag has been set since the last hook.
C26_CancellationPrecedence ==
    /\ [][\A w \in Sessions :
            /\ HookStep(w) /\ cancel_flag
               => /\ raised'[w].kind = "cancellation"
                  /\ \A i \in DOMAIN todo'[Worker(w)] : ~IsProgress(todo'[Worker(w)][i])
                  /\ TerminalOf(todo'[Worker(w)]) = {"Cancelled"}
            /\ HookStep(w) /\ ~cancel_flag => raised'[w].kind = "none"
            /\ raised[w].kind = "none" /\ raised'[w].kind = "returned"
                  /\ todo'[Worker(w)] # <<>>
               => TerminalOf(todo'[Worker(w)]) = {"Finished"}]_vars
    /\ [](\A w \in Sessions :
            terminal[w] # "none"
            => /\ raised[w].kind = "cancellation" => terminal[w] = "Cancelled"
               /\ raised[w].kind = "returned" => terminal[w] = "Finished")

\* a progress action of a hook has been applied, cancel_download has set
\* the flag after the last hook of the session and the flag is still set,
\* the library has returned and the worker has enqueued the log line of
\* Finished
C26_Witness ==
    \E w \in Sessions :
        /\ cancel_flag /\ cancel_requested[w] /\ ~hook_after_cancel[w]
        /\ progress_bar = 50
        /\ raised[w].kind = "returned"
        /\ terminal[w] = "Finished"

====
